---- MODULE Spec2Model ----
(***************************************************************************)
(* LoyaltyTracker of stockholm_syndrome_loyalty_simulator.py.              *)
(*                                                                         *)
(* Numbers.  The program computes on Python floats.  The model computes on *)
(* exact fixed-point numbers: an integer n stands for the real n / Q.  Q   *)
(* is chosen so that every product and quotient the program forms on the   *)
(* input grids below is exact (ExactArithmetic checks it).  A Python float *)
(* that is not finite (nan, inf, -inf) is carried as a tagged value until  *)
(* the clamp, which is the only place the program compares raw inputs.     *)
(* round(x, n) rounds the binary float, so on a decimal tie (x exactly     *)
(* half-way between two n-digit decimals) the representation error of the  *)
(* float decides the direction; the model leaves that direction open       *)
(* (parameter tie).                                                        *)
(***************************************************************************)
EXTENDS Integers, Sequences, FiniteSets, TLC

VARIABLES history,   \* self.history: the list of metric dicts
          last,      \* the most recent call: method name and its arguments
          ret,       \* what that call returned to its caller
          frame,     \* locals of the most recent calculate_metrics body
          display,   \* what plot_analysis last produced
          n_add      \* number of add_measurement calls made so far

vars == <<history, last, ret, frame, display, n_add>>

(* ---- bounds ---- *)
GridDen == 2      \* inputs of the exhaustive grid are multiples of 1/GridDen
Outside == 1      \* grid steps the grid extends below 0 and above 10
MaxHist == 3      \* add_measurement is not called beyond this history length

(* ---- fixed-point numbers ---- *)
Q == 600 * GridDen * GridDen

Fin(n) == [k |-> "fin", v |-> n]
NaN == [k |-> "nan", v |-> 0]
PosInf == [k |-> "inf", v |-> 0]
NegInf == [k |-> "ninf", v |-> 0]

Num(n) == n * Q                 \* the integer literal n
Dec(n, d) == (n * Q) \div d     \* the decimal literal n/d
Mul(x, y) == (x * y) \div Q     \* x * y
IsFinite(x) == x.k = "fin"

\* x < y on Python floats: every comparison with nan is False.
PyLt(x, y) ==
  CASE x.k = "nan" \/ y.k = "nan" -> FALSE
    [] x.k = "inf" -> FALSE
    [] x.k = "ninf" -> y.k # "ninf"
    [] y.k = "inf" -> TRUE
    [] y.k = "ninf" -> FALSE
    [] OTHER -> x.v < y.v

\* builtin min(a, b) / max(a, b): the first argument is kept unless the
\* second is strictly smaller / strictly larger.
PyMin(a, b) == IF PyLt(b, a) THEN b ELSE a
PyMax(a, b) == IF PyLt(a, b) THEN b ELSE a

\* builtin round(x, ndigits) on a value of the model; tie \in {0, 1} is the
\* direction taken on an exact decimal tie.
Round(x, ndigits, tie) ==
  LET U == IF ndigits = 1 THEN Q \div 10 ELSE Q \div 100
      q == x \div U
      r == x % U
  IN  IF 2 * r < U THEN q * U
      ELSE IF 2 * r > U THEN (q + 1) * U
      ELSE (q + tie) * U

(* ---- LoyaltyTracker.__init__ ---- *)
loyalty_states ==
  << [state |-> "Healthy",  color |-> "#2ecc71", threshold |-> 75],
     [state |-> "Stable",   color |-> "#3498db", threshold |-> 60],
     [state |-> "At Risk",  color |-> "#f1c40f", threshold |-> 50],
     [state |-> "Unstable", color |-> "#e67e22", threshold |-> 40],
     [state |-> "Toxic",    color |-> "#e74c3c", threshold |-> 0] >>

None == [kind |-> "None"]
NoArgs == [op |-> "__init__", satisfaction |-> Fin(0), dependency |-> Fin(0),
           manipulation |-> Fin(0), tie |-> 0]
NoFrame == [health_score |-> 0, broke |-> FALSE]

(* ---- LoyaltyTracker.calculate_metrics ---- *)
\* "Normalize inputs": max(0, min(10, x))
Normalize_no_upper(x) == PyMax(Fin(Num(0)), x)
Normalize(x) == PyMax(Fin(Num(0)), PyMin(Fin(Num(10)), x))

true_satisfaction(satisfaction, manipulation) ==
  Mul(satisfaction, Num(1) - manipulation \div 15)

emotional_vulnerability(dependency, manipulation) ==
  LET e == Mul(dependency, Dec(7, 10)) + Mul(manipulation, Dec(3, 10))
  IN  IF e < Num(10) THEN e ELSE Num(10)

autonomy(dependency, manipulation) ==
  LET a == Num(10) - (Mul(dependency, Dec(5, 10)) + Mul(manipulation, Dec(5, 10)))
  IN  IF a > Num(0) THEN a ELSE Num(0)

power_imbalance(dependency, manipulation) ==
  LET p == Mul(manipulation, Dec(6, 10)) + Mul(dependency, Dec(4, 10))
  IN  IF p < Num(10) THEN p ELSE Num(10)

health_score_dep_sign(satisfaction, dependency, manipulation) ==
    (true_satisfaction(satisfaction, manipulation) \div 10) * 30
  + (autonomy(dependency, manipulation) \div 10) * 25
  + (dependency \div 10) * 25
  + ((Num(10) - power_imbalance(dependency, manipulation)) \div 10) * 20
health_score(satisfaction, dependency, manipulation) ==
    (true_satisfaction(satisfaction, manipulation) \div 10) * 30
  + (autonomy(dependency, manipulation) \div 10) * 25
  + ((Num(10) - dependency) \div 10) * 25
  + ((Num(10) - power_imbalance(dependency, manipulation)) \div 10) * 20

risk_factors_flipped(satisfaction, dependency, manipulation) ==
    (IF manipulation > Num(6) THEN <<"High Manipulation">> ELSE <<>>)
  \o (IF dependency > Num(7) THEN <<"High Dependency">> ELSE <<>>)
  \o (IF true_satisfaction(satisfaction, manipulation) > Num(4)
        THEN <<"Low Satisfaction">> ELSE <<>>)
  \o (IF autonomy(dependency, manipulation) < Num(3)
        THEN <<"Low Autonomy">> ELSE <<>>)
risk_factors(satisfaction, dependency, manipulation) ==
    (IF manipulation > Num(6) THEN <<"High Manipulation">> ELSE <<>>)
  \o (IF dependency > Num(7) THEN <<"High Dependency">> ELSE <<>>)
  \o (IF true_satisfaction(satisfaction, manipulation) < Num(4)
        THEN <<"Low Satisfaction">> ELSE <<>>)
  \o (IF autonomy(dependency, manipulation) < Num(3)
        THEN <<"Low Autonomy">> ELSE <<>>)

\* the for loop over self.loyalty_states.items(), from entry i on;
\* broke tells whether the loop left through its break.
RECURSIVE StateLoop_strict(_, _)
StateLoop_strict(h, i) ==
  IF i > Len(loyalty_states)
    THEN [loyalty_state |-> "Toxic", broke |-> FALSE]
    ELSE IF h > Num(loyalty_states[i].threshold)
           THEN [loyalty_state |-> loyalty_states[i].state, broke |-> TRUE]
           ELSE StateLoop_strict(h, i + 1)
RECURSIVE StateLoop(_, _)
StateLoop(h, i) ==
  IF i > Len(loyalty_states)
    THEN [loyalty_state |-> "Toxic", broke |-> FALSE]
    ELSE IF h >= Num(loyalty_states[i].threshold)
           THEN [loyalty_state |-> loyalty_states[i].state, broke |-> TRUE]
           ELSE StateLoop(h, i + 1)

\* the locals of one run of the body that the claims speak about
Locals(s, d, m) ==
  LET satisfaction == Normalize(s).v
      dependency == Normalize(d).v
      manipulation == Normalize(m).v
      h == health_score(satisfaction, dependency, manipulation)
  IN  [health_score |-> h, broke |-> StateLoop(h, 1).broke]

\* 'timestamp': len(self.history) + 1
next_timestamp_stale(hist) == Len(hist)
next_timestamp(hist) == Len(hist) + 1

\* the dict the method returns when self.history is hist
calculate_metrics(hist, s, d, m, tie) ==
  LET satisfaction == Normalize(s).v
      dependency == Normalize(d).v
      manipulation == Normalize(m).v
      h == health_score(satisfaction, dependency, manipulation)
  IN  [kind |-> "dict",
       timestamp |-> next_timestamp(hist),
       satisfaction |-> satisfaction,
       true_satisfaction |->
         Round(true_satisfaction(satisfaction, manipulation), 2, tie),
       dependency |-> dependency,
       manipulation |-> manipulation,
       emotional_vulnerability |->
         Round(emotional_vulnerability(dependency, manipulation), 2, tie),
       autonomy |-> Round(autonomy(dependency, manipulation), 2, tie),
       power_imbalance |->
         Round(power_imbalance(dependency, manipulation), 2, tie),
       health_score |-> Round(h, 1, tie),
       loyalty_state |-> StateLoop(h, 1).loyalty_state,
       risk_factors |-> risk_factors(satisfaction, dependency, manipulation)]

Args(op, s, d, m, tie) ==
  [op |-> op, satisfaction |-> s, dependency |-> d, manipulation |-> m,
   tie |-> tie]

\* a caller invokes tracker.calculate_metrics(s, d, m)
CalculateMetrics_storing(s, d, m, tie) ==
  /\ last' = Args("calculate_metrics", s, d, m, tie)
  /\ ret' = calculate_metrics(history, s, d, m, tie)
  /\ frame' = Locals(s, d, m)
  /\ history' = Append(history, calculate_metrics(history, s, d, m, tie))
  /\ UNCHANGED <<display, n_add>>
CalculateMetrics(s, d, m, tie) ==
  /\ last' = Args("calculate_metrics", s, d, m, tie)
  /\ ret' = calculate_metrics(history, s, d, m, tie)
  /\ frame' = Locals(s, d, m)
  /\ UNCHANGED <<history, display, n_add>>

(* ---- LoyaltyTracker.add_measurement ---- *)
add_measurement_insert_front(s, d, m, tie) ==
  /\ last' = Args("add_measurement", s, d, m, tie)
  /\ history' = <<calculate_metrics(history, s, d, m, tie)>> \o history
  /\ frame' = Locals(s, d, m)
  /\ ret' = None
  /\ n_add' = n_add + 1
  /\ UNCHANGED display
add_measurement_reset(s, d, m, tie) ==
  /\ last' = Args("add_measurement", s, d, m, tie)
  /\ history' = <<calculate_metrics(history, s, d, m, tie)>>
  /\ frame' = Locals(s, d, m)
  /\ ret' = None
  /\ n_add' = n_add + 1
  /\ UNCHANGED display
add_measurement(s, d, m, tie) ==
  /\ last' = Args("add_measurement", s, d, m, tie)
  /\ history' = Append(history, calculate_metrics(history, s, d, m, tie))
  /\ frame' = Locals(s, d, m)
  /\ ret' = None
  /\ n_add' = n_add + 1
  /\ UNCHANGED display

(* ---- LoyaltyTracker.plot_analysis ---- *)
plot_analysis ==
  /\ last' = [NoArgs EXCEPT !.op = "plot_analysis"]
  /\ display' = IF history = <<>> THEN "No data to plot" ELSE "figure"
  /\ ret' = None
  /\ UNCHANGED <<history, frame, n_add>>

(* ---- inputs ---- *)
Ties == {0, 1}
Grid == {Fin((i * Q) \div GridDen) : i \in (0 - Outside)..(10 * GridDen + Outside)}
          \cup {NaN, PosInf, NegInf}

\* a triple given in halves, as the scenarios of the script are
Halves(a, b, c) == <<Fin((a * Q) \div 2), Fin((b * Q) \div 2), Fin((c * Q) \div 2)>>
scenarios ==
  { Halves(13, 7, 5),      \* (6.5, 3.5, 2.5)
    Halves(4, 16, 14) }    \* (2, 8, 7)
TrackerInputs ==
  scenarios \cup { Halves(0, 0, 0), Halves(-1, 21, 20), <<NaN, PosInf, NegInf>> }

(* ---- the tracker driven by any caller ---- *)
Init ==
  /\ history = <<>>
  /\ last = NoArgs
  /\ ret = None
  /\ frame = NoFrame
  /\ display = "none"
  /\ n_add = 0

DoCalculate == \E in \in TrackerInputs, tie \in Ties :
                  CalculateMetrics(in[1], in[2], in[3], tie)
DoAdd == /\ Len(history) < MaxHist
         /\ \E in \in TrackerInputs, tie \in Ties :
               add_measurement(in[1], in[2], in[3], tie)
DoPlot == plot_analysis

Next == DoCalculate \/ DoAdd \/ DoPlot
Spec == Init /\ [][Next]_vars

(* ---- one call on a new tracker, for every input of the grid ---- *)
InitGrid ==
  /\ history = <<>>
  /\ \E s \in Grid, d \in Grid, m \in Grid : last = Args("__init__", s, d, m, 0)
  /\ ret = None
  /\ frame = NoFrame
  /\ display = "none"
  /\ n_add = 0

GridCalculate ==
  /\ last.op = "__init__"
  /\ \E tie \in Ties :
        CalculateMetrics(last.satisfaction, last.dependency, last.manipulation, tie)
GridAdd ==
  /\ last.op = "__init__"
  /\ \E tie \in Ties :
        add_measurement(last.satisfaction, last.dependency, last.manipulation, tie)

NextGrid == GridCalculate \/ GridAdd
SpecGrid == InitGrid /\ [][NextGrid]_vars

(* ---- soundness of the number model ---- *)
Exact(x, n) == x % n = 0
\* every quotient formed for the arguments of the last call is exact, and
\* the clamp yields a finite number
ExactArithmetic ==
  LET s == Normalize(last.satisfaction)
      d == Normalize(last.dependency)
      m == Normalize(last.manipulation)
  IN  /\ IsFinite(s) /\ IsFinite(d) /\ IsFinite(m)
      /\ Exact(m.v, 15)
      /\ Exact(s.v * (Num(1) - m.v \div 15), Q)
      /\ Exact(d.v * Dec(7, 10), Q) /\ Exact(m.v * Dec(3, 10), Q)
      /\ Exact(d.v * Dec(5, 10), Q) /\ Exact(m.v * Dec(5, 10), Q)
      /\ Exact(m.v * Dec(6, 10), Q) /\ Exact(d.v * Dec(4, 10), Q)
      /\ Exact(true_satisfaction(s.v, m.v), 10)
      /\ Exact(autonomy(d.v, m.v), 10)
      /\ Exact(Num(10) - d.v, 10)
      /\ Exact(Num(10) - power_imbalance(d.v, m.v), 10)

(* ---- helpers of the properties ---- *)
IsCall == last.op \in {"calculate_metrics", "add_measurement"}
\* the dict computed by the last call: returned by calculate_metrics,
\* appended by add_measurement
Result == IF last.op = "add_measurement" THEN history[Len(history)] ELSE ret
FiniteArgs == /\ IsFinite(last.satisfaction) /\ IsFinite(last.dependency)
              /\ IsFinite(last.manipulation)
ArgsAre(a, b, c) == /\ last.satisfaction = Fin(Num(a))
                    /\ last.dependency = Fin(Num(b))
                    /\ last.manipulation = Fin(Num(c))
Le(x, y) == PyLt(x, y) \/ x = y
HealthOf(s, d, m) == Locals(s, d, m).health_score
\* entry i of the table brackets h: its threshold is at most h, and h is
\* below the threshold of the entry before it (none before Healthy)
Brackets(i, h) ==
  /\ Num(loyalty_states[i].threshold) <= h
  /\ i > 1 => h < Num(loyalty_states[i - 1].threshold)
InUnit(x, hi) == 0 <= x /\ x <= Num(hi)
InRange(r) ==
  /\ InUnit(r.satisfaction, 10) /\ InUnit(r.dependency, 10)
  /\ InUnit(r.manipulation, 10) /\ InUnit(r.true_satisfaction, 10)
  /\ InUnit(r.emotional_vulnerability, 10) /\ InUnit(r.autonomy, 10)
  /\ InUnit(r.power_imbalance, 10) /\ InUnit(r.health_score, 100)

(* ---- C1 ---- *)
\* C1: after N add_measurement calls, interleaved with any other calls,
\* history has length N and history[i]['timestamp'] is i+1 (0-based), so the
\* sequence numbers are exactly 1..N.
C1_SequenceInvariant ==
  /\ Len(history) = n_add
  /\ \A i \in 1..Len(history) : history[i].timestamp = i
C1_Witness ==
  /\ n_add >= 2 /\ last.op = "plot_analysis"
  /\ history[2].timestamp = 2

(* ---- C2 ---- *)
\* C2: for the unrounded health score h of every call, h is in [0,100], the
\* loop leaves through its break, and the selected state is the one and only
\* table entry whose threshold is <= h with h below the next-higher threshold.
C2_StatePartition ==
  IsCall =>
    LET h == frame.health_score
        sel == {i \in 1..Len(loyalty_states) : Brackets(i, h)}
    IN  /\ InUnit(h, 100)
        /\ frame.broke
        /\ Cardinality(sel) = 1
        /\ \A i \in sel : Result.loyalty_state = loyalty_states[i].state
\* every one of the five states is selected; witnessed here on a threshold
C2_Witness ==
  /\ last.op = "calculate_metrics"
  /\ frame.health_score = Num(0)
  /\ ret.loyalty_state = "Toxic" /\ frame.broke

(* ---- C3 ---- *)
\* C3: for finite inputs, also below 0 and above 10, the computed record
\* and every record of history has its seven metrics in [0,10] and its
\* health_score in [0,100].
C3_RangeInvariant ==
  (IsCall /\ FiniteArgs) =>
    /\ InRange(Result)
    /\ \A i \in 1..Len(history) : InRange(history[i])
C3_Witness ==
  /\ last.op = "add_measurement" /\ FiniteArgs
  /\ last.satisfaction.v > Num(10) /\ last.dependency.v < 0
  /\ history[1].satisfaction = Num(10) /\ history[1].dependency = 0
  /\ history[1].health_score = Num(100)

(* ---- C4 ---- *)
\* C4: the unrounded health_score never decreases when satisfaction grows
\* and never increases when dependency or manipulation grows, the other two
\* inputs held fixed.
C4_Monotone ==
  IsCall =>
    LET s == last.satisfaction
        d == last.dependency
        m == last.manipulation
        h == frame.health_score
    IN  \A x \in Grid :
          /\ Le(s, x) => h <= HealthOf(x, d, m)
          /\ Le(d, x) => h >= HealthOf(s, x, m)
          /\ Le(m, x) => h >= HealthOf(s, d, x)
C4_Witness ==
  /\ last.op = "calculate_metrics" /\ FiniteArgs
  /\ \E x \in Grid :
       /\ PyLt(last.satisfaction, x)
       /\ frame.health_score < HealthOf(x, last.dependency, last.manipulation)
  /\ \E x \in Grid :
       /\ PyLt(last.dependency, x)
       /\ frame.health_score > HealthOf(last.satisfaction, x, last.manipulation)
  /\ \E x \in Grid :
       /\ PyLt(last.manipulation, x)
       /\ frame.health_score > HealthOf(last.satisfaction, last.dependency, x)

(* ---- C5 ---- *)
\* C5 as stated: add_measurement returns the record it appended, whose
\* sequence number is the new history length.
C5_ReturnsAppended ==
  last.op = "add_measurement" =>
    /\ ret = history[Len(history)]
    /\ ret.timestamp = Len(history)
\* C5 as amended: add_measurement returns nothing (None); the record it
\* appended is the last element of history, it is the record
\* calculate_metrics computes for the arguments, and its sequence number is
\* the new history length.
C5_AppendsAndReturnsNone ==
  last.op = "add_measurement" =>
    /\ ret = None
    /\ Len(history) >= 1
    /\ history[Len(history)].timestamp = Len(history)
    /\ history[Len(history)] =
         calculate_metrics(SubSeq(history, 1, Len(history) - 1),
                           last.satisfaction, last.dependency,
                           last.manipulation, last.tie)
C5_Witness ==
  /\ last.op = "add_measurement" /\ Len(history) = 2
  /\ ret = None /\ history[2].timestamp = 2

C7_NonFiniteRejected ==
  [][(last'.op \in {"calculate_metrics", "add_measurement"}
        /\ ~ (/\ IsFinite(last'.satisfaction) /\ IsFinite(last'.dependency)
              /\ IsFinite(last'.manipulation))) =>
       /\ ret'.kind = "raise"
       /\ history' = history]_vars

(* ---- C8 ---- *)
\* C8 as stated: calculate_metrics(0, 0, 0) yields true_satisfaction 0,
\* autonomy 10, power_imbalance 0, health_score 70, state Stable and no
\* risk factor.
C8_ScenarioNoRisk ==
  (last.op = "calculate_metrics" /\ ArgsAre(0, 0, 0)) =>
    /\ ret.true_satisfaction = Num(0) /\ ret.autonomy = Num(10)
    /\ ret.power_imbalance = Num(0) /\ ret.health_score = Num(70)
    /\ ret.loyalty_state = "Stable"
    /\ ret.risk_factors = <<>>
\* C8 as amended: the same values, with risk_factors = ["Low Satisfaction"]
\* (true_satisfaction 0 is below 4).
C8_ScenarioLowSatisfaction ==
  (last.op = "calculate_metrics" /\ ArgsAre(0, 0, 0)) =>
    /\ ret.true_satisfaction = Num(0) /\ ret.autonomy = Num(10)
    /\ ret.power_imbalance = Num(0) /\ ret.health_score = Num(70)
    /\ ret.loyalty_state = "Stable"
    /\ ret.risk_factors = <<"Low Satisfaction">>
C8_Witness ==
  /\ last.op = "calculate_metrics" /\ ArgsAre(0, 0, 0)
  /\ ret.kind = "dict" /\ ret.health_score = Num(70)

(* ---- C9 ---- *)
\* C9: every operation keeps each record of history at its position with
\* all its fields; add_measurement adds exactly one record at the end, and
\* calculate_metrics and plot_analysis leave history unchanged.
C9_AppendOnly ==
  [][/\ Len(history') >= Len(history)
     /\ SubSeq(history', 1, Len(history)) = history
     /\ last'.op = "add_measurement" => Len(history') = Len(history) + 1
     /\ last'.op \in {"calculate_metrics", "plot_analysis"} =>
          history' = history]_vars
C9_Witness ==
  /\ Len(history) = 3 /\ last.op = "plot_analysis" /\ display = "figure"

(* ---- C10 ---- *)
\* C10: the loyalty_state of every record agrees with the record's own
\* rounded health_score: threshold(state) <= health_score < threshold of the
\* next-higher state.
C10_ReportedScoreConsistent ==
  IsCall =>
    \A i \in 1..Len(loyalty_states) :
      Result.loyalty_state = loyalty_states[i].state =>
        Brackets(i, Result.health_score)
====
